---- MODULE Spec2Model ----
(***************************************************************************)
(* Model of src/src/Game.tsx: the React component Game of a tower-defense  *)
(* simulation.                                                             *)
(*                                                                         *)
(* React state is modelled twice: the variables coreHp, waves,             *)
(* currentWave, enemies, bullets and gameState hold the latest state (all  *)
(* queued updates applied in order), and `rendered` holds the values of    *)
(* the last render, which are the values the closures of the effects see   *)
(* (the fire interval callback, the Konva animation callback, spawnWave).  *)
(* Enemy and Bullet objects live in a heap (eobj, bobj) because the frame  *)
(* callback mutates them in place through shallow copies of the arrays.    *)
(*                                                                         *)
(* Lengths are pixels, time steps are tenths of a second. Every entity     *)
(* sits on one of the two axes through the core, so that all distances,    *)
(* unit vectors and floating-point results are exact integers.             *)
(***************************************************************************)
EXTENDS Integers, Sequences, FiniteSets, TLC

VARIABLES coreHp, waves, currentWave, enemies, bullets, gameState,
          rendered, eobj, bobj, fetch, pending, frames, last, fire,
          effects

vars == <<coreHp, waves, currentWave, enemies, bullets, gameState,
          rendered, eobj, bobj, fetch, pending, frames, last, fire,
          effects>>

----------------------------------------------------------------------------
(* Bounds of the model *)

\* most projectiles the live set holds before the fire tick is cut off
MaxBullets == 3

\* most frame callbacks that run on one render's closure
MaxStaleFrames == 2

\* frame.timeDiff values, in tenths of a second
Deltas == {1, 10}

\* Math.floor(Math.random() * 4) for the enemies of a wave, by index
\* modulo 4
SidePatterns == {<<1, 3, 0, 2>>, <<1, 1, 1, 1>>}

\* half of window.innerWidth and of window.innerHeight: a window so small
\* that a bullet leaves it within two short frames
HalfWidth == 35
HalfHeight == 35

----------------------------------------------------------------------------
(* Constants of the program *)

stageWidth == 2 * HalfWidth
stageHeight == 2 * HalfHeight
coreX == stageWidth \div 2
coreY == stageHeight \div 2
coreRadius == 30
InitialCoreHp == 100
bulletSpeed == 350
bulletRadius == 5
BulletDamage == 10
CoreDamage == 10

ENEMY_STATS ==
  [normal |-> [hp |-> 10, radius |-> 15, speed |-> 50],
   fast   |-> [hp |-> 5,  radius |-> 10, speed |-> 80],
   tank   |-> [hp |-> 50, radius |-> 25, speed |-> 30]]

\* a faulty variant of StatsOf: an unknown kind gets the fast profile
StatsOf_FastDefault(type) ==
  IF type \in DOMAIN ENEMY_STATS THEN ENEMY_STATS[type] ELSE ENEMY_STATS.fast

\* ENEMY_STATS[type] || ENEMY_STATS.normal
StatsOf(type) ==
  IF type \in DOMAIN ENEMY_STATS THEN ENEMY_STATS[type] ELSE ENEMY_STATS.normal

\* the wave catalogs /waves.json may hold
Group(t, c) == [type |-> t, count |-> c]
WaveRec(n, gs) == [wave |-> n, enemies |-> gs]

\* one wave that can bring the core down
TankRush == <<WaveRec(1, <<Group("tank", 10)>>)>>

\* records out of order, a kind the stat table lacks, and no wave 2
Campaign ==
  <<WaveRec(3, <<Group("fast", 1)>>),
    WaveRec(1, <<Group("normal", 1), Group("boss", 1)>>)>>

\* two waves in a row
TwoWaves ==
  <<WaveRec(1, <<Group("fast", 1)>>), WaveRec(2, <<Group("fast", 1)>>)>>

\* no wave 1
LateStart == <<WaveRec(2, <<Group("normal", 1)>>)>>

Catalogs == {TankRush, Campaign, TwoWaves, LateStart}

----------------------------------------------------------------------------
(* Floating-point values: integers and NaN *)

NaN == 0 - 1000000

FAdd(a, b) == IF a = NaN \/ b = NaN THEN NaN ELSE a + b
FMul(a, b) == IF a = NaN \/ b = NaN THEN NaN ELSE a * b
FLt(a, b) == a # NaN /\ b # NaN /\ a < b
FGt(a, b) == a # NaN /\ b # NaN /\ a > b

Sign(a) == IF a > 0 THEN 1 ELSE IF a < 0 THEN 0 - 1 ELSE 0

\* Math.pow(a, 2) + Math.pow(b, 2), the square of the distance
Dist2(ax, ay, bx, by) ==
  IF ax = NaN \/ ay = NaN \/ bx = NaN \/ by = NaN THEN NaN
  ELSE (ax - bx) * (ax - bx) + (ay - by) * (ay - by)

\* Math.sqrt(d2) < r, for r >= 0
WithinDist(d2, r) == d2 # NaN /\ d2 < r * r

\* a / Math.sqrt(a*a + b*b) for a point on an axis (a = 0 or b = 0)
UnitComp(a, b) == IF a = 0 /\ b = 0 THEN NaN ELSE Sign(a)

\* speed * delta, delta = frame.timeDiff / 1000 given in tenths of a second
StepLen(speed, d) == (speed * d) \div 10

Range(s) == {s[i] : i \in 1..Len(s)}

\* the function f written out as a table of its values
Table(f) == f @@ <<>>

Restrict(f, S) == Table([r \in S |-> f[r]])

MaxOf(S) == IF S = {} THEN 0 ELSE CHOOSE m \in S : \A x \in S : x <= m

\* Date.now() when the objects of heap are those still held: ids are only
\* ever compared for equality and the clock has moved on past every id given
\* out before, so the least such value stands for all of them
DateNow(heap) == MaxOf({heap[r].id : r \in DOMAIN heap}) + 1

----------------------------------------------------------------------------
(* Wave Director: spawnWave *)

\* a faulty variant of FindWave: waves[waveNumber - 1], lookup by position
FindWave_ByPosition(ws, n) == IF n >= 1 /\ n <= Len(ws) THEN n ELSE 0

\* waves.find(w => w.wave === waveNumber): index of the first match, 0 if none
FindWave(ws, n) ==
  IF \E i \in 1..Len(ws) : ws[i].wave = n
  THEN CHOOSE i \in 1..Len(ws) :
         ws[i].wave = n /\ \A j \in 1..(i - 1) : ws[j].wave # n
  ELSE 0

\* the kinds of the enemies of a wave in the order forEach and the for loop
\* push them
RECURSIVE GroupKinds(_)
GroupKinds(gs) ==
  IF gs = <<>> THEN <<>>
  ELSE [i \in 1..gs[1].count |-> gs[1].type] \o GroupKinds(Tail(gs))

\* Math.random() * stageWidth and Math.random() * stageHeight: the middle of
\* the edge
EdgePoint == coreX

\* the spawn point on edge `side` for an enemy of radius r
Place(side, r) ==
  IF side = 0 THEN [x |-> EdgePoint, y |-> 0 - r]
  ELSE IF side = 1 THEN [x |-> stageWidth + r, y |-> EdgePoint]
  ELSE IF side = 2 THEN [x |-> EdgePoint, y |-> stageHeight + r]
  ELSE [x |-> 0 - r, y |-> EdgePoint]

\* one new Enemy object: the k-th (from 0) pushed by spawnWave
NewEnemy(type, k, id0, pat) ==
  LET stats == StatsOf(type)
      p == Place(pat[(k % Len(pat)) + 1], stats.radius)
  IN [id |-> id0 + k, x |-> p.x, y |-> p.y, hp |-> stats.hp,
      type |-> type, radius |-> stats.radius]

\* newEnemies of spawnWave for the wave record waveData
NewEnemies(waveData, id0, pat) ==
  LET kinds == GroupKinds(waveData.enemies)
  IN [k \in 1..Len(kinds) |-> NewEnemy(kinds[k], k - 1, id0, pat)]

\* spawnWave(n) run with the catalog ws of its closure on the latest state
\* st = [enemies, eobj, currentWave, gameState]. setEnemies(newEnemies) drops
\* the previous array, so of the old Enemy objects only those the closure
\* still holds (held) stay on the heap
spawnWave(ws, n, pat, st, held) ==
  LET i == FindWave(ws, n) IN
  IF i = 0 THEN [st EXCEPT !.gameState = "victory"]
  ELSE
    LET old == Restrict(st.eobj, held)
        new == NewEnemies(ws[i], DateNow(old), pat)
        base == MaxOf(held)
        refs == [k \in 1..Len(new) |-> base + k]
    IN [enemies |-> refs,
        eobj |-> [r \in held \cup Range(refs) |->
                    IF r \in held THEN old[r] ELSE new[r - base]],
        currentWave |-> n,
        gameState |-> st.gameState]

----------------------------------------------------------------------------
(* Targeting & Fire Controller: the setInterval callback *)

\* the index in es of nearestEnemy: the first enemy at minimum distance to the
\* core (d < minDistance keeps the first of equally distant enemies)
Nearest(es, heap) ==
  LET d2(i) == Dist2(heap[es[i]].x, heap[es[i]].y, coreX, coreY)
  IN CHOOSE i \in 1..Len(es) :
       /\ \A j \in 1..Len(es) : d2(i) <= d2(j)
       /\ \A j \in 1..(i - 1) : d2(j) > d2(i)

\* a faulty variant of NewBullet: id: bullets.length instead of Date.now()
NewBullet_LengthId(e, id) ==
  [id |-> Len(rendered.bullets), x |-> coreX, y |-> coreY,
   dx |-> UnitComp(e.x - coreX, e.y - coreY),
   dy |-> UnitComp(e.y - coreY, e.x - coreX),
   radius |-> bulletRadius]

\* a faulty variant of AppendBullet: setBullets([...bullets, newBullet]) with
\* the array of the callback's closure
AppendBullet_FromClosure(prev, ref) == Append(rendered.bullets, ref)

\* setBullets(prev => [...prev, newBullet])
AppendBullet(prev, ref) == Append(prev, ref)

\* newBullet, aimed at enemy e
NewBullet(e, id) ==
  [id |-> id, x |-> coreX, y |-> coreY,
   dx |-> UnitComp(e.x - coreX, e.y - coreY),
   dy |-> UnitComp(e.y - coreY, e.x - coreX),
   radius |-> bulletRadius]

----------------------------------------------------------------------------
(* Simulation Loop: the Konva.Animation callback *)

\* bullet.x += bullet.dx * bulletSpeed * delta, and the same for y
AdvanceBullet(b, d) ==
  [b EXCEPT !.x = FAdd(b.x, FMul(b.dx, StepLen(bulletSpeed, d))),
            !.y = FAdd(b.y, FMul(b.dy, StepLen(bulletSpeed, d)))]

\* the bullet heap after updatedBullets.forEach has advanced the bullets bs
AdvancedBullets(heap, bs, d) ==
  Table([r \in DOMAIN heap |->
           IF r \in Range(bs) THEN AdvanceBullet(heap[r], d) ELSE heap[r]])

\* a faulty variant of OutOfView without the test of the right edge
OutOfView_NoRight(b) ==
  FLt(b.x, 0) \/ FLt(b.y, 0) \/ FGt(b.y, stageHeight)

\* bullet.x < 0 || bullet.x > stageWidth || bullet.y < 0 || bullet.y > stageHeight
OutOfView(b) ==
  FLt(b.x, 0) \/ FGt(b.x, stageWidth) \/ FLt(b.y, 0) \/ FGt(b.y, stageHeight)

\* dist < enemy.radius + bullet.radius
Hits(b, e) == WithinDist(Dist2(b.x, b.y, e.x, e.y), e.radius + b.radius)

\* the ids in bulletsToRemove after the bullet loop
BulletsToRemove(bheap, bs, eheap, es) ==
  {bheap[bs[i]].id : i \in
     {i \in 1..Len(bs) :
        \/ OutOfView(bheap[bs[i]])
        \/ \E j \in 1..Len(es) : Hits(bheap[bs[i]], eheap[es[j]])}}

\* enemiesToDamage.get(k) || 0
MapGet(m, k) == IF k \in DOMAIN m THEN m[k] ELSE 0

\* a faulty variant of DamageOfBullet: enemiesToDamage.set(enemy.id, 10), the
\* damage of several bullets does not add up
DamageOfBullet_NoSum(m, b, eheap, es) ==
  LET hit == {j \in 1..Len(es) : Hits(b, eheap[es[j]])}
      ids == {eheap[es[j]].id : j \in hit}
  IN Table([id \in DOMAIN m \cup ids |->
              IF id \in ids THEN BulletDamage ELSE m[id]])

\* the Map enemiesToDamage after the inner loop of bullet b over the enemies
\* es, started from m: every overlap adds 10 under the enemy's id
\*   enemiesToDamage.set(enemy.id, (enemiesToDamage.get(enemy.id) || 0) + 10)
DamageOfBullet(m, b, eheap, es) ==
  LET hit == {j \in 1..Len(es) : Hits(b, eheap[es[j]])}
      ids == {eheap[es[j]].id : j \in hit}
  IN Table([id \in DOMAIN m \cup ids |->
              MapGet(m, id)
              + BulletDamage * Cardinality({j \in hit : eheap[es[j]].id = id})])

\* the Map after the outer loop has visited the bullets bs[i..], from m
RECURSIVE DamageFold(_, _, _, _, _, _)
DamageFold(bheap, bs, eheap, es, i, m) ==
  IF i > Len(bs) THEN m
  ELSE DamageFold(bheap, bs, eheap, es, i + 1,
                  DamageOfBullet(m, bheap[bs[i]], eheap, es))

EnemiesToDamage(bheap, bs, eheap, es) ==
  DamageFold(bheap, bs, eheap, es, 1, <<>>)

\* enemy.hp -= enemiesToDamage.get(enemy.id)
Damaged(e, dmg) ==
  IF e.id \in DOMAIN dmg THEN [e EXCEPT !.hp = e.hp - dmg[e.id]] ELSE e

\* enemy.hp <= 0 after the damage
Culled(e, dmg) == Damaged(e, dmg).hp <= 0

\* distToCore < coreRadius + enemy.radius, for an enemy that was not culled
ReachesCore(e, dmg) ==
  /\ ~Culled(e, dmg)
  /\ WithinDist(Dist2(e.x, e.y, coreX, coreY), coreRadius + e.radius)

\* enemy.x += moveX; enemy.y += moveY
MoveEnemy(e, d) ==
  LET step == StepLen(StatsOf(e.type).speed, d)
  IN [e EXCEPT !.x = FAdd(e.x, FMul(UnitComp(coreX - e.x, coreY - e.y), step)),
               !.y = FAdd(e.y, FMul(UnitComp(coreY - e.y, coreX - e.x), step))]

\* a faulty variant of EnemyStep: the enemy moves before the core collision
\* is looked at
EnemyStep_MoveFirst(e, dmg, d) ==
  IF Culled(e, dmg) THEN Damaged(e, dmg)
  ELSE MoveEnemy(Damaged(e, dmg), d)

\* one enemy object after the body of the second updatedEnemies.forEach
EnemyStep(e, dmg, d) ==
  IF Culled(e, dmg) \/ ReachesCore(e, dmg) THEN Damaged(e, dmg)
  ELSE MoveEnemy(Damaged(e, dmg), d)

\* the enemy heap after the enemy loop over es
SteppedEnemies(heap, es, dmg, d) ==
  Table([r \in DOMAIN heap |->
           IF r \in Range(es) THEN EnemyStep(heap[r], dmg, d) ELSE heap[r]])

\* the ids in enemiesToRemove after the enemy loop
EnemiesToRemove(heap, es, dmg) ==
  {heap[es[i]].id : i \in
     {i \in 1..Len(es) : Culled(heap[es[i]], dmg) \/ ReachesCore(heap[es[i]], dmg)}}

\* how many times the loop ran newCoreHp -= 10
CoreHits(heap, es, dmg) ==
  Cardinality({i \in 1..Len(es) : ReachesCore(heap[es[i]], dmg)})

\* newCoreHp at the end of the enemy loop
NewCoreHp(hp, heap, es, dmg) == hp - CoreDamage * CoreHits(heap, es, dmg)

\* prev.filter(x => !toRemove.has(x.id))
FilterIds(prev, heap, toRemove) ==
  SelectSeq(prev, LAMBDA r : heap[r].id \notin toRemove)

\* a faulty variant of NextWave that skips a wave
NextWave_Skip(cw) == cw + 2

\* the wave the state check asks for: spawnWave(currentWave + 1)
NextWave(cw) == cw + 1

\* a faulty variant of StateCheck that looks at the enemy set first
StateCheck_SpawnFirst(newCoreHp, left, ws) ==
  IF left = 0 /\ Len(ws) > 0 THEN "spawn"
  ELSE IF newCoreHp <= 0 THEN "gameover"
  ELSE "none"

\* the branch the "Check game state" block takes
StateCheck(newCoreHp, left, ws) ==
  IF newCoreHp <= 0 THEN "gameover"
  ELSE IF left = 0 /\ Len(ws) > 0 THEN "spawn"
  ELSE "none"

----------------------------------------------------------------------------
(* The component: state, render, effects and callbacks *)

\* the values a render captures for the closures of its effects
Snapshot ==
  [coreHp |-> coreHp, waves |-> waves, currentWave |-> currentWave,
   enemies |-> enemies, bullets |-> bullets, gameState |-> gameState]

\* a faulty variant of ClearInterval: the effect returns no cleanup
ClearInterval_Missing(n) == n

\* return () => clearInterval(fireInterval): one interval fewer is active
ClearInterval(n) == n - 1

\* return () => anim.stop(): one animation fewer is active
StopAnim(n) == n - 1

\* effects.intervals and effects.anims count the fire intervals and the
\* animations that were started and not stopped; effects.rearm says that
\* setEnemies or setGameState ran since the last render, so that the next
\* render finds the dependencies [enemies, coreX, coreY, gameState] of the
\* auto-fire effect changed; effects.mounted says the component is mounted.
\* The callbacks of an interval and of an animation run while these exist
intervalOn == effects.intervals > 0
animOn == effects.anims > 0

\* the auto-fire effect of a render: the cleanup of its previous run, which
\* exists if that run saw gameState === 'playing', and then its body
FireEffect(n) ==
  (IF rendered.gameState = "playing" THEN ClearInterval(n) ELSE n)
    + (IF gameState = "playing" THEN 1 ELSE 0)

\* the main-loop effect of a render, the same way
LoopEffect(n) ==
  (IF rendered.gameState = "playing" THEN StopAnim(n) ELSE n)
    + (IF gameState = "playing" THEN 1 ELSE 0)

\* the random edges spawnWave draws when it finds wave n in ws
PatternsFor(found) == IF found THEN SidePatterns ELSE {<<1>>}

\* what the last callback did (history, read by the properties only)
NoFrame ==
  [newCoreHp |-> 0, left |-> 0, liveLeft |-> 0, maxHits |-> 0,
   cullAtCore |-> FALSE, coreHits |-> 0, oob |-> 0, late |-> 0, kept |-> 0]

Did(op, spawn, found, fr) ==
  [op |-> op, spawn |-> spawn, found |-> found, frame |-> fr]

Init ==
  /\ coreHp = InitialCoreHp
  /\ waves = <<>>
  /\ currentWave = 0
  /\ enemies = <<>>
  /\ bullets = <<>>
  /\ gameState = "playing"
  /\ rendered = [coreHp |-> InitialCoreHp, waves |-> <<>>, currentWave |-> 0,
                 enemies |-> <<>>, bullets |-> <<>>, gameState |-> "playing"]
  /\ eobj = <<>>
  /\ bobj = <<>>
  /\ fetch = "pending"
  /\ pending = FALSE
  /\ frames = 0
  /\ last = Did("mount", 0, FALSE, NoFrame)
  /\ fire = [timer |-> 0, waited |-> 0, lastId |-> 0, moved |-> TRUE]
  /\ effects = [intervals |-> 1, anims |-> 1, rearm |-> FALSE, mounted |-> TRUE]

\* .then((data) => setWaves(data))
CatalogArrives ==
  /\ effects.mounted
  /\ fetch = "pending"
  /\ \E cat \in Catalogs : waves' = cat
  /\ fetch' = "done"
  /\ pending' = TRUE
  /\ last' = Did("load", 0, FALSE, NoFrame)
  /\ UNCHANGED <<coreHp, currentWave, enemies, bullets, gameState, rendered,
                 eobj, bobj, frames, effects>>

\* the fetch or res.json() rejects: no handler, setWaves is never called
FetchRejects ==
  /\ fetch = "pending"
  /\ fetch' = "failed"
  /\ last' = Did("fail", 0, FALSE, NoFrame)
  /\ UNCHANGED <<coreHp, waves, currentWave, enemies, bullets, gameState,
                 rendered, eobj, bobj, pending, frames, effects>>

\* the bootstrap effect runs when waves or currentWave changed, and spawns
\* wave 1 if waves.length > 0 && currentWave === 0
BootstrapRuns ==
  /\ rendered.waves # waves \/ rendered.currentWave # currentWave
  /\ Len(waves) > 0
  /\ currentWave = 0

\* React renders the queued updates and runs the effects whose dependencies
\* changed: the bootstrap effect, then the restart of interval and animation
Commit ==
  /\ effects.mounted
  /\ pending
  /\ rendered' = Snapshot
  /\ frames' = 0
  /\ bobj' = Restrict(bobj, Range(bullets))
  /\ LET st0 == [enemies |-> enemies, eobj |-> Restrict(eobj, Range(enemies)),
                 currentWave |-> currentWave, gameState |-> gameState]
         boot == BootstrapRuns
         found == boot /\ FindWave(waves, 1) # 0
     IN \E pat \in PatternsFor(found) :
          LET st == IF boot THEN spawnWave(waves, 1, pat, st0, {}) ELSE st0
          IN /\ enemies' = st.enemies
             /\ eobj' = st.eobj
             /\ currentWave' = st.currentWave
             /\ gameState' = st.gameState
             /\ pending' = boot
             /\ last' = Did("render", IF boot THEN 1 ELSE 0, found, NoFrame)
             /\ effects' = [effects EXCEPT
                   !.intervals = IF effects.rearm THEN FireEffect(@) ELSE @,
                   !.anims = LoopEffect(@),
                   !.rearm = boot]
  /\ UNCHANGED <<coreHp, waves, bullets, fetch>>

\* the setInterval callback of the render's auto-fire effect, run when
\* Date.now() reads now
FireCallback(now) ==
  /\ intervalOn
  /\ Len(bullets) < MaxBullets
  /\ LET es == rendered.enemies IN
     IF Len(es) = 0
     THEN /\ UNCHANGED <<bullets, bobj, pending>>
     ELSE LET b == NewBullet(eobj[es[Nearest(es, eobj)]], now)
              ref == MaxOf(DOMAIN bobj) + 1
          IN /\ bullets' = AppendBullet(bullets, ref)
             /\ bobj' = [r \in DOMAIN bobj \cup {ref} |->
                           IF r = ref THEN b ELSE bobj[r]]
             /\ pending' = TRUE
  /\ last' = Did("fire", 0, FALSE, NoFrame)
  /\ UNCHANGED <<coreHp, waves, currentWave, enemies, gameState, rendered,
                 eobj, fetch, frames, effects>>

\* the Konva.Animation callback of the render's main-loop effect, called with
\* frame.timeDiff = d tenths of a second: the states it can leave, one for
\* each way spawnWave may draw the edges
FrameOutcomes(d) ==
  LET es == rendered.enemies
      bs == rendered.bullets
      bheap == AdvancedBullets(bobj, bs, d)
      bRemove == BulletsToRemove(bheap, bs, eobj, es)
      dmg == EnemiesToDamage(bheap, bs, eobj, es)
      eheap == SteppedEnemies(eobj, es, dmg, d)
      eRemove == EnemiesToRemove(eobj, es, dmg)
      newCoreHp == NewCoreHp(rendered.coreHp, eobj, es, dmg)
      left == Len(FilterIds(es, eobj, eRemove))
      kept == FilterIds(enemies, eobj, eRemove)
      newBullets == FilterIds(bullets, bheap, bRemove)
      branch == StateCheck(newCoreHp, left, rendered.waves)
      n == NextWave(rendered.currentWave)
      found == branch = "spawn" /\ FindWave(rendered.waves, n) # 0
      st0 == [enemies |-> kept, eobj |-> eheap, currentWave |-> currentWave,
              gameState |-> gameState]
      hits(i) == Cardinality({j \in 1..Len(bs) :
                                Hits(bheap[bs[j]], eobj[es[i]])})
      fr == [newCoreHp |-> newCoreHp,
             left |-> left,
             liveLeft |-> Len(kept),
             maxHits |-> MaxOf({hits(i) : i \in 1..Len(es)}),
             cullAtCore |-> \E i \in 1..Len(es) :
                 /\ Culled(eobj[es[i]], dmg)
                 /\ eobj[es[i]].hp > 0
                 /\ WithinDist(Dist2(eobj[es[i]].x, eobj[es[i]].y, coreX, coreY),
                               coreRadius + eobj[es[i]].radius),
             coreHits |-> CoreHits(eobj, es, dmg),
             oob |-> Cardinality({j \in 1..Len(bs) : OutOfView(bheap[bs[j]])}),
             late |-> Cardinality(Range(bullets) \ Range(bs)),
             kept |-> Cardinality({j \in 1..Len(bs) :
                                     bheap[bs[j]].id \notin bRemove})]
      After(pat) ==
        LET st == IF branch = "spawn"
                    THEN spawnWave(rendered.waves, n, pat, st0, Range(es))
                  ELSE IF branch = "gameover"
                    THEN [st0 EXCEPT !.gameState = "gameover"]
                  ELSE st0
        IN [bullets |-> newBullets,
            bobj |-> Restrict(bheap, Range(newBullets) \cup Range(bs)),
            enemies |-> st.enemies,
            eobj |-> Restrict(st.eobj, Range(st.enemies) \cup Range(es)),
            coreHp |-> IF newCoreHp # rendered.coreHp THEN newCoreHp ELSE coreHp,
            currentWave |-> st.currentWave,
            gameState |-> st.gameState,
            last |-> Did("frame", IF branch = "spawn" THEN n ELSE 0, found, fr)]
  IN {After(pat) : pat \in PatternsFor(found)}

FrameCallback(d) ==
  /\ animOn
  /\ frames < MaxStaleFrames
  /\ \E out \in FrameOutcomes(d) :
       /\ bullets' = out.bullets
       /\ bobj' = out.bobj
       /\ enemies' = out.enemies
       /\ eobj' = out.eobj
       /\ coreHp' = out.coreHp
       /\ currentWave' = out.currentWave
       /\ gameState' = out.gameState
       /\ last' = out.last
  /\ pending' = TRUE
  /\ frames' = frames + 1
  /\ effects' = [effects EXCEPT !.rearm = TRUE]
  /\ UNCHANGED <<waves, rendered, fetch>>

\* the untimed component: every callback may run whenever its effect is
\* active, and the clock of the fire interval stands still
LoadCatalog == CatalogArrives /\ UNCHANGED fire
FetchFail == FetchRejects /\ UNCHANGED fire
Render == Commit /\ UNCHANGED fire
FireTick == FireCallback(DateNow(bobj)) /\ UNCHANGED fire
Frame(d) == FrameCallback(d) /\ UNCHANGED fire

Next ==
  \/ LoadCatalog
  \/ FetchFail
  \/ Render
  \/ FireTick
  \/ \E d \in Deltas : Frame(d)

Spec == Init /\ [][Next]_vars

----------------------------------------------------------------------------
(* The component with the clock of the fire interval *)

\* setInterval(..., 400), in tenths of a second
FireInterval == 4

\* frame.timeDiff values of the timed component: a short frame, and a gap
\* between frames as long as the fire interval
TimedDeltas == {1, FireInterval}

\* the longest wait for a projectile that is told apart
MaxWait == FireInterval + 2

Least(a, b) == IF a < b THEN a ELSE b

\* the game is playing with a live enemy to fire at
Engaged == gameState = "playing" /\ enemies # <<>>

\* fire.timer is the time since setInterval armed the active interval or
\* since its last tick: a render that finds the dependencies of the auto-fire
\* effect changed runs clearInterval and arms a new interval; fire.waited is
\* the time the game
\* has been engaged without a projectile being fired; fire.lastId is the
\* value Date.now() gave the last projectile and fire.moved says that time
\* has passed since
TimedRender ==
  /\ Commit
  /\ fire' = [fire EXCEPT !.timer = IF effects.rearm THEN 0 ELSE @]

\* Date.now() at a tick: later than every value read before once time has
\* passed, the same value otherwise
TickClock == IF fire.moved THEN DateNow(bobj) ELSE fire.lastId

\* the interval callback runs when its 400 ms are over
TimedFireTick ==
  /\ fire.timer = FireInterval
  /\ FireCallback(TickClock)
  /\ fire' = [fire EXCEPT !.timer = 0,
                          !.waited = IF bullets' # bullets THEN 0 ELSE @,
                          !.lastId = IF bullets' # bullets THEN TickClock ELSE @,
                          !.moved = IF bullets' # bullets THEN FALSE ELSE @]

\* d tenths of a second pass and the animation callback runs; a tick that
\* falls due earlier runs first
TimedFrame(d) ==
  /\ (intervalOn /\ Len(bullets) < MaxBullets) => fire.timer + d <= FireInterval
  /\ FrameCallback(d)
  /\ fire' = [timer |-> IF intervalOn THEN Least(fire.timer + d, FireInterval)
                        ELSE fire.timer,
              waited |-> IF Engaged /\ gameState' = "playing" /\ enemies' # <<>>
                         THEN Least(fire.waited + d, MaxWait) ELSE 0,
              lastId |-> fire.lastId,
              moved |-> TRUE]

\* the component is unmounted: React runs the cleanups of both effects
Unmount ==
  /\ effects.mounted
  /\ effects' = [effects EXCEPT
        !.intervals = IF rendered.gameState = "playing" THEN ClearInterval(@) ELSE @,
        !.anims = IF rendered.gameState = "playing" THEN StopAnim(@) ELSE @,
        !.mounted = FALSE]
  /\ last' = Did("unmount", 0, FALSE, NoFrame)
  /\ UNCHANGED <<coreHp, waves, currentWave, enemies, bullets, gameState,
                 rendered, eobj, bobj, fetch, pending, frames, fire>>

TimedNext ==
  \/ LoadCatalog
  \/ FetchFail
  \/ TimedRender
  \/ TimedFireTick
  \/ \E d \in TimedDeltas : TimedFrame(d)
  \/ Unmount

TimedSpec == Init /\ [][TimedNext]_vars

----------------------------------------------------------------------------
(* The component with frames that keep occurring *)

\* frame.timeDiff values of a slow animation loop, in tenths of a second
SlowDeltas == {20}

SlowFrame == \E d \in SlowDeltas : Frame(d)

\* the largest value Date.now() returns to a fire tick
MaxClock == 3

\* a fire tick while Date.now() is at most MaxClock
ClockedFireTick == DateNow(bobj) <= MaxClock /\ FireTick

FairNext ==
  \/ LoadCatalog
  \/ FetchFail
  \/ Render
  \/ ClockedFireTick
  \/ SlowFrame

\* the step of a frame callback: it is possible exactly when SlowFrame is
\* (the animation is running and the closure has frames left), and of the
\* steps of FairNext only SlowFrame increases frames
FrameTurn == animOn /\ frames < MaxStaleFrames /\ frames' = frames + 1

\* React renders queued updates, the running animation keeps calling its
\* callback and the active interval keeps ticking
FairSpec ==
  /\ Init
  /\ [][FairNext]_vars
  /\ WF_vars(Render)
  /\ WF_frames(FrameTurn)
  /\ WF_vars(ClockedFireTick)

----------------------------------------------------------------------------
(* Properties *)

Terminal == gameState \in {"gameover", "victory"}

\* C1: the game state starts as playing and only ever changes from playing to
\* game-over or from playing to victory; once terminal it never changes again.
C1_GameStateMonotone ==
  [][gameState' # gameState =>
       gameState = "playing" /\ gameState' \in {"gameover", "victory"}]_vars

\* C2: a frame step whose computed core hit points are <= 0 sets the game
\* state to game-over in that frame and does not call spawnWave, even when the
\* frame also empties the enemy set.
C2_GameOverOverrides ==
  (last.op = "frame" /\ last.frame.newCoreHp <= 0) =>
    (gameState = "gameover" /\ last.spawn = 0)

\* a frame brought the core to 0 and removed every enemy of its snapshot
C2_Witness ==
  /\ last.op = "frame"
  /\ last.frame.newCoreHp <= 0
  /\ last.frame.left = 0
  /\ last.frame.coreHits > 0
  /\ gameState = "gameover"

\* C3: once the game state is game-over or victory, no later frame step or
\* fire tick changes the live enemy set, the live projectile set, the core
\* hit points or the current wave number.
C3_TerminalFreezes ==
  [][Terminal => UNCHANGED <<enemies, bullets, coreHp, currentWave>>]_vars

----------------------------------------------------------------------------
(* Wave Director *)

\* the catalog the spawnWave call of the last step closed over
SpawnCatalog == rendered.waves

\* some record of the catalog ws carries the wave number n
HasWave(ws, n) == \E i \in 1..Len(ws) : ws[i].wave = n

\* C4: spawnWave(n) looks the wave up by its wave field, not by position; when
\* no record has wave = n it sets the game state to victory and spawns
\* nothing: no enemy enters the live set and the current wave stays.
C4_LookupMiss ==
  [][(last'.spawn # 0 /\ ~HasWave(rendered'.waves, last'.spawn)) =>
       /\ gameState' = "victory"
       /\ currentWave' = currentWave
       /\ Range(enemies') \subseteq Range(enemies)
       /\ \A r \in Range(enemies') : eobj'[r].id = eobj[r].id
       /\ last'.op = "render" => enemies' = enemies]_vars

\* spawnWave(n) missed although the catalog has a record at position n
C4_Witness ==
  /\ last.spawn # 0
  /\ ~HasWave(SpawnCatalog, last.spawn)
  /\ last.spawn <= Len(SpawnCatalog)
  /\ gameState = "victory"

\* initial hit points and radius per kind, 'normal' for any other kind
ProfileHp(kind) ==
  CASE kind = "normal" -> 10 [] kind = "fast" -> 5 [] kind = "tank" -> 50
    [] OTHER -> 10

ProfileRadius(kind) ==
  CASE kind = "normal" -> 15 [] kind = "fast" -> 10 [] kind = "tank" -> 25
    [] OTHER -> 15

\* how many enemies of the kind the groups gs ask for
RECURSIVE CountOf(_, _)
CountOf(gs, kind) ==
  IF gs = <<>> THEN 0
  ELSE (IF gs[1].type = kind THEN gs[1].count ELSE 0) + CountOf(Tail(gs), kind)

RECURSIVE TotalOf(_)
TotalOf(gs) == IF gs = <<>> THEN 0 ELSE gs[1].count + TotalOf(Tail(gs))

\* C5: when the catalog contains wave n, spawnWave(n) replaces the live enemy
\* set with exactly count enemies for each group of wave n and nothing else,
\* each with the initial hit points and radius of its kind (those of 'normal'
\* for a kind the stat table lacks), and sets the current wave to n.
C5_SpawnExact ==
  (last.spawn # 0 /\ HasWave(SpawnCatalog, last.spawn)) =>
    LET w == CHOOSE w \in Range(SpawnCatalog) : w.wave = last.spawn
        kinds == {w.enemies[i].type : i \in 1..Len(w.enemies)}
    IN /\ currentWave = last.spawn
       /\ Len(enemies) = TotalOf(w.enemies)
       /\ Cardinality(Range(enemies)) = Len(enemies)
       /\ \A r \in Range(enemies) :
            /\ eobj[r].type \in kinds
            /\ eobj[r].hp = ProfileHp(eobj[r].type)
            /\ eobj[r].radius = ProfileRadius(eobj[r].type)
       /\ \A kind \in kinds :
            Cardinality({r \in Range(enemies) : eobj[r].type = kind})
              = CountOf(w.enemies, kind)

\* a wave with a kind the stat table lacks was spawned
C5_Witness ==
  /\ last.spawn # 0
  /\ HasWave(SpawnCatalog, last.spawn)
  /\ \E r \in Range(enemies) : eobj[r].type \notin DOMAIN ENEMY_STATS

\* C6: every change of the current wave number is an increase by exactly 1.
C6_WaveByOne ==
  [][currentWave' # currentWave => currentWave' = currentWave + 1]_vars

\* the frame loop has advanced the wave after the bootstrap
C6_Witness == last.op = "frame" /\ last.spawn = 2 /\ currentWave = 2

\* C7: the frame loop calls spawnWave(currentWave + 1) only when the live
\* enemy set after the frame's removals is empty, the catalog is loaded and
\* the core hit points are > 0; it never advances the wave while a live enemy
\* remains.
C7_SpawnOnlyWhenEmpty ==
  (last.op = "frame" /\ last.spawn # 0) =>
    /\ last.frame.liveLeft = 0
    /\ Len(waves) > 0
    /\ last.frame.newCoreHp > 0

----------------------------------------------------------------------------
(* Core *)

\* C8: the core's hit points start at 100 and never increase.
C8_CoreHpNeverIncreases == [][coreHp' <= coreHp]_vars

----------------------------------------------------------------------------
(* Simulation Loop *)

\* the projectiles of the frame's snapshot that overlap enemy r once advanced
Overlapping(r) ==
  {b \in Range(rendered.bullets) :
     LET p == bobj'[b]
         e == eobj[r]
     IN p.x # NaN /\ p.y # NaN /\
        (p.x - e.x) * (p.x - e.x) + (p.y - e.y) * (p.y - e.y)
          < (e.radius + p.radius) * (e.radius + p.radius)}

\* enemy r of the frame's snapshot touches the core
AtCore(r) ==
  LET e == eobj[r]
  IN (e.x - coreX) * (e.x - coreX) + (e.y - coreY) * (e.y - coreY)
       < (coreRadius + e.radius) * (coreRadius + e.radius)

\* C9: in one frame an enemy overlapped by k projectiles loses exactly k x 10
\* hit points; if its hit points are then <= 0 it is removed in that frame,
\* does not move and does not reduce the core's hit points even if it
\* overlaps the core.
C9_DamageAddsUp ==
  [][last'.op = "frame" =>
       LET es == Range(rendered.enemies)
           dead == {r \in es : eobj'[r].hp <= 0}
           hp == rendered.coreHp
                   - 10 * Cardinality({r \in es \ dead : AtCore(r)})
       IN /\ \A r \in es :
               eobj'[r].hp = eobj[r].hp - 10 * Cardinality(Overlapping(r))
          /\ \A r \in dead :
               /\ \A q \in Range(enemies') : eobj'[q].id # eobj[r].id
               /\ eobj'[r].x = eobj[r].x
               /\ eobj'[r].y = eobj[r].y
          /\ last'.frame.newCoreHp = hp
          /\ hp # rendered.coreHp => coreHp' = hp]_vars

\* a frame in which three projectiles overlapped one enemy and an enemy that
\* touched the core was culled
C9_Witness ==
  last.op = "frame" /\ last.frame.maxHits >= 3 /\ last.frame.cullAtCore

\* the position of projectile p lies outside the viewport rectangle
Outside(p) ==
  /\ p.x # NaN
  /\ p.y # NaN
  /\ (p.x < 0 \/ p.x > stageWidth \/ p.y < 0 \/ p.y > stageHeight)

\* C10: every projectile whose position after the frame's advance lies
\* outside the viewport is absent from the live projectile set after the
\* frame's commit, also when a fire tick appended a projectile between the
\* frame's snapshot and its commit.
C10_OutOfViewRemoved ==
  last.op = "frame" =>
    \A b \in Range(rendered.bullets) :
      Outside(bobj[b]) => \A q \in Range(bullets) : bobj[q].id # bobj[b].id

\* a frame advanced a projectile out of the viewport after a fire tick had
\* appended one that its snapshot lacks
C10_Witness ==
  last.op = "frame" /\ last.frame.oob > 0 /\ last.frame.late > 0

----------------------------------------------------------------------------
(* Targeting & Fire Controller *)

\* the square of the distance of live enemy i to the core
CoreDist2(i) ==
  LET e == eobj[enemies[i]]
  IN (e.x - coreX) * (e.x - coreX) + (e.y - coreY) * (e.y - coreY)

\* projectile p starts at the core and points at enemy e
AimedAt(p, e) ==
  /\ p.x = coreX
  /\ p.y = coreY
  /\ p.dx * (e.y - coreY) = p.dy * (e.x - coreX)
  /\ p.dx * (e.x - coreX) + p.dy * (e.y - coreY) > 0
  /\ p.dx * p.dx + p.dy * p.dy = 1

\* C11: a fire tick with a non-empty live enemy set appends exactly one
\* projectile, at the core and aimed at the first enemy at minimum distance
\* to the core; with an empty live enemy set it appends none; the enemy set,
\* core hit points, wave number and game state are unchanged.
C11_FireTickAppendsOne ==
  [][last'.op = "fire" =>
       /\ UNCHANGED <<enemies, eobj, coreHp, currentWave, gameState>>
       /\ IF enemies = <<>> THEN bullets' = bullets
          ELSE /\ Len(bullets') = Len(bullets) + 1
               /\ SubSeq(bullets', 1, Len(bullets)) = bullets
               /\ \E i \in 1..Len(enemies) :
                    /\ \A j \in 1..Len(enemies) : CoreDist2(i) <= CoreDist2(j)
                    /\ \A j \in 1..(i - 1) : CoreDist2(j) > CoreDist2(i)
                    /\ AimedAt(bobj'[bullets'[Len(bullets')]], eobj[enemies[i]])]_vars

\* C12: while the game is playing and the live enemy set stays non-empty a
\* projectile is fired every fire interval, however often frame steps run:
\* the game never waits longer than one interval for a projectile.
C12_FiresEveryInterval == fire.waited <= FireInterval

----------------------------------------------------------------------------
(* Fire Controller and Simulation Loop together *)

\* the projectiles of the frame's snapshot that the frame marks for removal:
\* out of the viewport after the advance, or overlapping an enemy
Marked ==
  {s \in Range(rendered.bullets) :
     \/ Outside(bobj'[s])
     \/ \E r \in Range(rendered.enemies) : s \in Overlapping(r)}

\* C13: no update is lost between the fire tick and the frame loop: a frame's
\* commit keeps, in order, every live projectile it did not mark for removal,
\* among them those a fire tick appended after the frame's snapshot, and a
\* fire tick only appends: it brings back no projectile a frame has removed.
C13_NoLostUpdate ==
  [][/\ last'.op = "frame" =>
          LET ids == {bobj[s].id : s \in Marked}
          IN bullets' = SelectSeq(bullets, LAMBDA b : bobj[b].id \notin ids)
     /\ last'.op = "fire" =>
          /\ SubSeq(bullets', 1, Len(bullets)) = bullets
          /\ Len(bullets') <= Len(bullets) + 1
          /\ \A b \in Range(bullets') \ Range(bullets) : b \notin DOMAIN bobj]_vars

\* a frame removed a projectile of its snapshot and kept one that a fire tick
\* had appended after the snapshot
C13_Witness ==
  /\ last.op = "frame"
  /\ last.frame.late > 0
  /\ last.frame.kept < Len(rendered.bullets)
  /\ Range(bullets) \ Range(rendered.bullets) # {}

----------------------------------------------------------------------------
(* Entities *)

\* C14: in every reachable state no two live enemies share an id and no two
\* live projectiles share an id.
C14_UniqueIds ==
  /\ \A i, j \in 1..Len(enemies) :
       eobj[enemies[i]].id = eobj[enemies[j]].id => i = j
  /\ \A i, j \in 1..Len(bullets) :
       bobj[bullets[i]].id = bobj[bullets[j]].id => i = j

\* two projectiles of two fire ticks are live
C14_Witness == Len(bullets) >= 2 /\ last.op = "fire"

\* C15: a frame never computes a movement direction with a zero distance to
\* the core: an enemy at the core's center, and any enemy closer than core
\* radius + enemy radius, is removed by the frame without being moved, and no
\* enemy position becomes undefined.
C15_ZeroDistanceGuard ==
  [][last'.op = "frame" =>
       \A r \in Range(rendered.enemies) :
         /\ eobj'[r].x # NaN
         /\ eobj'[r].y # NaN
         /\ (eobj'[r].x # eobj[r].x \/ eobj'[r].y # eobj[r].y) =>
              (eobj[r].x # coreX \/ eobj[r].y # coreY)
         /\ AtCore(r) =>
              /\ eobj'[r].x = eobj[r].x
              /\ eobj'[r].y = eobj[r].y
              /\ \A q \in Range(enemies') : eobj'[q].id # eobj[r].id]_vars

\* a frame removed an enemy that stood exactly at the core's center
C15_Witness ==
  /\ last.op = "frame"
  /\ last.frame.coreHits > 0
  /\ \E r \in Range(rendered.enemies) \ Range(enemies) :
       eobj[r].x = coreX /\ eobj[r].y = coreY /\ eobj[r].hp > 0

----------------------------------------------------------------------------
(* Effects *)

----------------------------------------------------------------------------
(* Bootstrap *)

\* C17: spawnWave(1) is called once, by the bootstrap effect of the render
\* that first sees the catalog, and never by a frame step; while no catalog
\* has arrived nothing is spawned, the enemy set is empty and the game state
\* is playing.
C17_BootstrapOnce ==
  [][/\ (last'.op = "frame") => (last'.spawn # 1)
     /\ (last'.op = "render" /\ last'.spawn = 1) =>
          (rendered.waves = <<>> /\ waves # <<>> /\ currentWave = 0)
     /\ (waves' = <<>>) =>
          (enemies' = <<>> /\ currentWave' = 0 /\ gameState' = "playing")]_vars

----------------------------------------------------------------------------
(* Projectile damage *)

\* the projectiles of the frame's snapshot that an earlier frame has removed
\* from the live set for overlapping an enemy: they are gone from the live set
\* and their position, which that frame tested, is inside the viewport
HitBefore ==
  {b \in Range(rendered.bullets) :
     /\ \A q \in Range(bullets) : bobj[q].id # bobj[b].id
     /\ ~Outside(bobj[b])}

\* C18: a projectile that overlaps an enemy is removed by that frame's commit
\* and deals its damage in one frame only: no later frame, also one that runs
\* on the snapshot taken before the commit was rendered, applies damage from
\* the same projectile again.
C18_DamageOnce ==
  [][last'.op = "frame" =>
       \A r \in Range(rendered.enemies) : \A b \in Overlapping(r) :
         /\ \A q \in Range(bullets') : bobj'[q].id # bobj[b].id
         /\ b \notin HitBefore]_vars

----------------------------------------------------------------------------
(* Projectile direction *)

\* C19: every live projectile has a well-defined unit direction, fixed when
\* it was fired: a fire tick never divides by a distance of zero, and no step
\* changes the direction of a projectile.
C19_UnitDirection ==
  [][/\ \A b \in Range(bullets') :
          /\ bobj'[b].dx # NaN
          /\ bobj'[b].dy # NaN
          /\ bobj'[b].dx * bobj'[b].dx + bobj'[b].dy * bobj'[b].dy = 1
     /\ \A b \in DOMAIN bobj \cap DOMAIN bobj' :
          /\ bobj'[b].dx = bobj[b].dx
          /\ bobj'[b].dy = bobj[b].dy]_vars

----------------------------------------------------------------------------
(* Termination *)

\* C20: with a loaded catalog and frames that keep occurring, the game
\* eventually reaches game-over or victory.
C20_EventuallyEnds == (waves # <<>>) ~> Terminal

====
